---- MODULE Spec2Model ----
(***************************************************************************)
(* Model of homework.py: the module-level environment setup, the           *)
(* credential gate check_tokens, and the poll / validate / parse / diff /  *)
(* notify loop of main() with its helpers get_api_answer, check_response,  *)
(* parse_status and send_message.                                          *)
(*                                                                         *)
(* Texts.  TLA+ strings are ASCII, so every Cyrillic literal of the source *)
(* is written as an ASCII rendering; distinct literals of the source stay  *)
(* distinct here.  A text (a Python str built by format or an f-string) is *)
(* the sequence of its fragments: the literal pieces of the template and   *)
(* the rendered arguments, in order.  Over the inputs of this model two    *)
(* texts are equal as Python strings exactly when their fragment sequences *)
(* are equal.                                                              *)
(*                                                                         *)
(* Python values.  None is the empty tuple and an integer n is <<n>> where *)
(* a variable can hold either (timestamp, dict.get results).  A JSON value *)
(* is a record with its Python type name in field t; a key that a dict     *)
(* does not carry has the value Missing / MissingValue.                    *)
(***************************************************************************)
EXTENDS Integers, Sequences, FiniteSets, TLC

\* ------------------------------------------------------------- constants

TOKEN_NAMES == <<"PRACTICUM_TOKEN", "TELEGRAM_TOKEN", "TELEGRAM_CHAT_ID">>

TOKEN_ABSENCE_MESSAGE == "Missing environment variables: "

INVALID_JSON_MESSAGE == "API error. Status code: "

\* Line 39 rebinds REQUEST_ERROR_MESSAGE; its only placeholder is {error}.
REQUEST_ERROR_MESSAGE == "Error while requesting the API "

REQUEST_ERROR_PLACEHOLDERS == {"error"}

HOMEWORK_KEY_MISSING_MESSAGE == "Key \"homeworks\" is missing."

UNKNOWN_STATUS_MESSAGE == "Unknown homework status: "

HOMEWORK_NAME_MISSING_MESSAGE == "Key \"homework_name\" is missing in the API answer."

HOMEWORK_STATUS_MISSING_MESSAGE == "Key \"status\" is missing in the API answer."

NO_NEW_HOMEWORK_MESSAGE == <<"No new homeworks in the API answer.">>

PROGRAM_FAIL_MESSAGE == "Program failure "

HOMEWORKS_NOT_LIST_MESSAGE == "Key homeworks holds "

API_ANSWER_NOT_DICTIONARY == "The API answer is "

RETRY_PERIOD == 600

HTTP_OK == 200

HOMEWORK_VERDICTS ==
    [approved  |-> "Work checked: the reviewer liked everything. Hooray!",
     reviewing |-> "Work taken for review by the reviewer.",
     rejected  |-> "Work checked: the reviewer has remarks."]

\* ---------------------------------------------------------- Python values

None == <<>>

Some(v) == <<v>>

\* bool(x) of an int-or-None value, as the `or` of line 230 evaluates it.
Truthy(x) == x # None /\ x[1] # 0

PyOrSwapped(a, b) == IF Truthy(b) THEN b ELSE a

\* Python's `a or b`.
PyOr(a, b) == IF Truthy(a) THEN a ELSE b

Missing == "<missing>"

MissingValue == [t |-> "missing", s |-> ""]

JStr(s) == [t |-> "str", s |-> s]

JNone == [t |-> "NoneType", s |-> ""]

JList == [t |-> "list", s |-> ""]

\* str(v), as format() and f-strings render a value.
PyStr(v) ==
    CASE v.t = "str" -> v.s
      [] v.t = "NoneType" -> "None"
      [] v.t = "list" -> "[]"
      [] OTHER -> ""

\* str(type(v)).
PyType(t) == "<class '" \o t \o "'>"

\* Values a dict can be keyed by: list and dict are unhashable.
Hashable(v) == v.t \notin {"list", "dict"}

\* An exception instance: its class and the text it was constructed with.
Raise(type, msg) == [type |-> type, msg |-> msg]

\* No exception.
NoError == Raise("", <<>>)

\* str(error): KeyError renders the repr of its argument, the others the
\* argument itself.
ErrorStr(error) ==
    IF error.type = "KeyError" THEN <<"'">> \o error.msg \o <<"'">>
    ELSE error.msg

\* The result of a call: a value returned or an exception raised.
Returned(v) == [raised |-> FALSE, value |-> v, error |-> Raise("", <<>>)]

Raised(e) == [raised |-> TRUE, value |-> <<>>, error |-> e]

NoText == <<>>

\* ------------------------------------------------------------ JSON values

\* A response body as response.json() yields it.  t is its Python type
\* ("notjson": the body does not parse and json() raises).
Body(t, homeworks, current_date, error, code) ==
    [t |-> t, homeworks |-> homeworks, current_date |-> current_date,
     error |-> error, code |-> code]

\* The value under the key homeworks: its type and, for a list, its items.
HomeworksValue(t, items) == [t |-> t, items |-> items]

NoHomeworks == HomeworksValue("missing", <<>>)

\* One element of homeworks: a dict with optional keys, or a non-dict.
Homework(t, homework_name, status) ==
    [t |-> t, homework_name |-> homework_name, status |-> status]

\* ----------------------------------------------------- environment setup

NoneStr == "<None>"

EnvNames == {TOKEN_NAMES[i] : i \in 1..Len(TOKEN_NAMES)}

\* load_dotenv() with override=False: a name of the file is set only when
\* os.environ does not carry it.
load_dotenv(env, dotenv) ==
    [n \in EnvNames |-> IF env[n] = Missing THEN dotenv[n] ELSE env[n]]

\* os.getenv(name): the value, or None.
getenv(env, n) == IF env[n] = Missing THEN NoneStr ELSE env[n]

\* `not value` for a str-or-None value.
Falsy(v) == v \in {NoneStr, ""}

\* Lines 77-79: the names whose module global is falsy, in TOKEN_NAMES order.
missing_tokens(globs) == SelectSeq(TOKEN_NAMES, LAMBDA n : Falsy(globs[n]))

\* -------------------------------------------------------- check_response

check_response_no_key_check(response) ==
    IF response.t # "dict"
    THEN Raised(Raise("TypeError",
            <<API_ANSWER_NOT_DICTIONARY, PyType(response.t), ", not a dict">>))
    ELSE IF response.homeworks.t # "list"
    THEN Raised(Raise("TypeError",
            <<HOMEWORKS_NOT_LIST_MESSAGE, PyType(response.homeworks.t),
              ", not a list.">>))
    ELSE Returned(None)

check_response_no_type_check(response) ==
    IF response.t # "dict"
    THEN Raised(Raise("TypeError",
            <<API_ANSWER_NOT_DICTIONARY, PyType(response.t), ", not a dict">>))
    ELSE IF response.homeworks.t = "missing"
    THEN Raised(Raise("KeyError", <<HOMEWORK_KEY_MISSING_MESSAGE>>))
    ELSE Returned(None)

\* Lines 169-182.
check_response(response) ==
    IF response.t # "dict"
    THEN Raised(Raise("TypeError",
            <<API_ANSWER_NOT_DICTIONARY, PyType(response.t), ", not a dict">>))
    ELSE IF response.homeworks.t = "missing"
    THEN Raised(Raise("KeyError", <<HOMEWORK_KEY_MISSING_MESSAGE>>))
    ELSE IF response.homeworks.t # "list"
    THEN Raised(Raise("TypeError",
            <<HOMEWORKS_NOT_LIST_MESSAGE, PyType(response.homeworks.t),
              ", not a list.">>))
    ELSE Returned(None)

\* ---------------------------------------------------------- parse_status

StatusText(homework_name, verdict) ==
    <<"Review status changed for work \"", homework_name, "\". ", verdict>>

\* parse_status with one presence test for the two keys, reporting the name.
parse_status_joint_check(homework) ==
    IF homework.t # "dict"
    THEN Raised(Raise("TypeError",
                      <<"argument of type '", homework.t, "' is not iterable">>))
    ELSE IF homework.homework_name = Missing \/ homework.status = MissingValue
    THEN Raised(Raise("KeyError", <<HOMEWORK_NAME_MISSING_MESSAGE>>))
    ELSE IF ~Hashable(homework.status)
    THEN Raised(Raise("TypeError",
                      <<"unhashable type: '", homework.status.t, "'">>))
    ELSE IF homework.status.t # "str"
            \/ homework.status.s \notin DOMAIN HOMEWORK_VERDICTS
    THEN Raised(Raise("ValueError",
                      <<UNKNOWN_STATUS_MESSAGE, PyStr(homework.status)>>))
    ELSE Returned(StatusText(homework.homework_name,
                             HOMEWORK_VERDICTS[homework.status.s]))

\* Lines 200-209.  `in` on a non-iterable raises TypeError (line 200), and
\* the catalog lookup of line 206 hashes status, so an unhashable status
\* raises TypeError before the membership test of line 207 is reached.
parse_status(homework) ==
    IF homework.t # "dict"
    THEN Raised(Raise("TypeError",
            <<"argument of type '", homework.t, "' is not iterable">>))
    ELSE IF homework.homework_name = Missing
    THEN Raised(Raise("KeyError", <<HOMEWORK_NAME_MISSING_MESSAGE>>))
    ELSE IF homework.status = MissingValue
    THEN Raised(Raise("KeyError", <<HOMEWORK_STATUS_MISSING_MESSAGE>>))
    ELSE IF ~Hashable(homework.status)
    THEN Raised(Raise("TypeError",
            <<"unhashable type: '", homework.status.t, "'">>))
    ELSE IF homework.status.t # "str"
            \/ homework.status.s \notin DOMAIN HOMEWORK_VERDICTS
    THEN Raised(Raise("ValueError",
            <<UNKNOWN_STATUS_MESSAGE, PyStr(homework.status)>>))
    ELSE Returned(StatusText(homework.homework_name,
                             HOMEWORK_VERDICTS[homework.status.s]))

\* -------------------------------------------------------- get_api_answer

\* The exception classes homework.py imports from the exceptions module
\* (line 11).  exceptions.py as given defines neither; they are taken to be
\* subclasses of Exception, as the `except Exception` of main() expects.
InvalidJSONError == "InvalidJSONError"

ConnectionError == "ConnectionError"

\* What requests.get does: raise a RequestException, or answer with a
\* status code and a body.
HttpOutcome(exc, status_code, body) ==
    [exc |-> exc, status_code |-> status_code, body |-> body]

NoBody == Body("notjson", NoHomeworks, None, Missing, Missing)

ApiResult(raised, error, body) ==
    [raised |-> raised, error |-> error, body |-> body]

\* Lines 133-137: str.format with the keyword arguments endpoint, headers
\* and params.  A placeholder of the template that is none of them makes
\* format raise KeyError(placeholder) in place of the ConnectionError.
RequestErrorRaised ==
    LET unbound == REQUEST_ERROR_PLACEHOLDERS \ {"endpoint", "headers", "params"}
    IN  IF unbound = {}
        THEN Raise(ConnectionError, <<REQUEST_ERROR_MESSAGE>>)
        ELSE Raise("KeyError", <<CHOOSE k \in unbound : TRUE>>)

\* get_api_answer without the status test of line 139.
get_api_answer_any_status(timestamp, http) ==
    IF http.exc
    THEN ApiResult(TRUE, RequestErrorRaised, NoBody)
    ELSE IF http.body.t = "notjson"
    THEN ApiResult(TRUE, Raise("JSONDecodeError",
                    <<"Expecting value: line 1 column 1 (char 0)">>), NoBody)
    ELSE ApiResult(FALSE, Raise("", <<>>), http.body)

\* Lines 125-153.
get_api_answer(timestamp, http) ==
    IF http.exc
    THEN ApiResult(TRUE, RequestErrorRaised, NoBody)
    ELSE IF http.status_code # HTTP_OK
    THEN IF http.body.t = "notjson"
         THEN ApiResult(TRUE, Raise("JSONDecodeError",
                    <<"Expecting value: line 1 column 1 (char 0)">>), NoBody)
         ELSE IF http.body.t # "dict"
         THEN ApiResult(TRUE, Raise("AttributeError",
                    <<"'", http.body.t, "' object has no attribute 'get'">>),
                    NoBody)
         ELSE ApiResult(TRUE, Raise(InvalidJSONError,
                    <<INVALID_JSON_MESSAGE, ToString(http.status_code),
                      ". Request parameters: from_date=", ToString(timestamp[1]),
                      ". Found keys: ",
                      IF http.body.code # Missing THEN "code" ELSE "",
                      IF http.body.error # Missing THEN "error" ELSE "",
                      " Denial of service: ",
                      IF http.body.error \notin {Missing, ""}
                      THEN http.body.error
                      ELSE IF http.body.code = Missing THEN "None"
                      ELSE http.body.code>>), NoBody)
    ELSE IF http.body.t = "notjson"
    THEN ApiResult(TRUE, Raise("JSONDecodeError",
                    <<"Expecting value: line 1 column 1 (char 0)">>), NoBody)
    ELSE ApiResult(FALSE, Raise("", <<>>), http.body)

\* -------------------------------------------------------------- send_message

\* What a send_message call did: whether an exception left it, what it
\* returned, and the bot.send_message calls it made.
SendResult(raised, error, result, attempts) ==
    [raised |-> raised, error |-> error, result |-> result,
     attempts |-> attempts]

\* An exception of the bot (telebot.apihelper.ApiTelegramException is one).
BotError == Raise("ApiTelegramException", <<"A request to the Telegram API was unsuccessful.">>)

Ok(attempt) == attempt.ok

\* send_message calling the bot again after a failure.
send_message_retry(message, botRaises) ==
    IF botRaises
    THEN SendResult(FALSE, NoError, FALSE,
                    <<[text |-> message, ok |-> FALSE],
                      [text |-> message, ok |-> FALSE]>>)
    ELSE SendResult(FALSE, NoError, TRUE, <<[text |-> message, ok |-> TRUE]>>)

\* send_message without the try statement of lines 99-107.
send_message_uncaught(message, botRaises) ==
    IF botRaises
    THEN SendResult(TRUE, BotError, FALSE, <<[text |-> message, ok |-> FALSE]>>)
    ELSE SendResult(FALSE, NoError, TRUE, <<[text |-> message, ok |-> TRUE]>>)

\* Lines 99-107: one bot.send_message call inside try; True when it
\* returned, False when it raised an Exception, which is logged and goes no
\* further.
send_message(message, botRaises) ==
    IF botRaises
    THEN SendResult(FALSE, NoError, FALSE, <<[text |-> message, ok |-> FALSE]>>)
    ELSE SendResult(FALSE, NoError, TRUE, <<[text |-> message, ok |-> TRUE]>>)


\* ------------------------------------------------------------------ bounds

\* Poll cycles explored.
MaxCycles == 3

\* Longest homeworks list the API returns.
MaxHomeworks == 2

\* ------------------------------------------------------------------ inputs

EnvValues == {Missing, "", "tok"}

\* os.environ at launch and the .env file, over the three token names.
EnvConfigs == [EnvNames -> EnvValues]

\* int(time.time()) at startup: the clock is past the epoch.
StartTimes == {3}

\* current_date of a response: absent, before and after the startup time.
Dates == {None, Some(1), Some(5)}

Proj(status) == Homework("dict", "proj1", JStr(status))

\* First elements of homeworks the loop is fed: two registered statuses
\* and an unregistered one.
FirstHomeworks == {Proj("approved"), Proj("reviewing"), Proj("graded")}

\* Elements at later positions: a non-dict and a dict lacking its name with
\* an unregistered status.
LaterHomeworks ==
    {Homework("int", Missing, MissingValue),
     Homework("dict", Missing, JStr("graded"))}

RECURSIVE Tails(_)
Tails(n) ==
    IF n = 0 THEN {<<>>}
    ELSE Tails(n - 1)
         \cup {Append(t, h) : t \in {u \in Tails(n - 1) : Len(u) = n - 1},
                              h \in LaterHomeworks}

HomeworkLists ==
    {<<>>} \cup {<<f>> \o t : f \in FirstHomeworks, t \in Tails(MaxHomeworks - 1)}

OkBody(homeworks, current_date) ==
    Body("dict", homeworks, current_date, Missing, Missing)

\* Bodies of a 200 answer.
LoopBodies ==
    {OkBody(HomeworksValue("list", l), d) : l \in HomeworkLists, d \in Dates}
    \cup {OkBody(NoHomeworks, d) : d \in {None, Some(5)}}
    \cup {OkBody(HomeworksValue("dict", <<>>), Some(5)),
          Body("list", NoHomeworks, None, Missing, Missing)}

HttpOutcomes ==
    {HttpOutcome(TRUE, 0, NoBody),
     HttpOutcome(FALSE, 500, Body("dict", NoHomeworks, None, "boom", Missing)),
     HttpOutcome(FALSE, 500,
                 OkBody(HomeworksValue("list", <<Proj("approved")>>), Some(5))),
     HttpOutcome(FALSE, HTTP_OK, NoBody)}
    \cup {HttpOutcome(FALSE, HTTP_OK, b) : b \in LoopBodies}

\* ------------------------------------------------------------------- state

VARIABLES
    pc,            \* position of the process in homework.py
    environ,       \* os.environ
    tokens,        \* the module globals PRACTICUM_TOKEN, TELEGRAM_TOKEN, TELEGRAM_CHAT_ID
    exit,          \* the uncaught exception that ended the process, if any
    timestamp,     \* main(): the poll cursor
    last_message,  \* main(): the last delivered text
    response,      \* main(): the body get_api_answer returned
    message,       \* main(): the candidate text of this cycle
    error,         \* main(): the exception bound by `except ... as error`
    supplied,      \* history: names with a non-empty value in the launch configuration
                   \*          (os.environ, completed from .env as load_dotenv does)
    tokenChecks,   \* history: calls of check_tokens
    polls,         \* history: calls of get_api_answer
    validated,     \* history: check_response returned in this cycle
    sent,          \* history: bot.send_message attempts of this cycle, [text, ok]
    prev,          \* history: message and sent of the previous cycle
    delivered,     \* history: texts of the successful deliveries, oldest first
    cycle,         \* history: completed cycles (sleeps)
    lmStart,       \* history: last_message when this cycle began
    reported,      \* history: the texts parse_status has returned so far
    calls,         \* history: send_message calls of this cycle, [text, result, raised]
    parsed,        \* history: the arguments of the parse_status calls of this cycle
    http,          \* history: what requests.get did in this cycle
    slept,         \* history: seconds spent in time.sleep
    fnArg,         \* function harness: the argument
    fnRes          \* function harness: the call made and its result

vars ==
    <<pc, environ, tokens, exit, timestamp, last_message, response, message,
      error, supplied, tokenChecks, polls, validated, sent, prev, delivered,
      cycle, lmStart, reported, calls, parsed, http, slept, fnArg, fnRes>>

NoExit == [by |-> "", error |-> NoError]

NoHomework == Homework("", Missing, MissingValue)

NotRun == [op |-> "", homework |-> NoHomework, out |-> Returned(None)]

NoCycle == [message |-> NoText, sent |-> <<>>]

\* No request made yet in this cycle.
NoRequest == HttpOutcome(FALSE, 0, NoBody)

Init ==
    /\ pc = "import"
    /\ environ \in EnvConfigs
    /\ tokens = [n \in EnvNames |-> NoneStr]
    /\ exit = NoExit
    /\ timestamp = None
    /\ last_message = NoText
    /\ response = NoBody
    /\ message = NoText
    /\ error = NoError
    /\ supplied = {}
    /\ tokenChecks = 0
    /\ polls = 0
    /\ validated = FALSE
    /\ sent = <<>>
    /\ prev = NoCycle
    /\ delivered = <<>>
    /\ cycle = 0
    /\ lmStart = NoText
    /\ reported = {}
    /\ calls = <<>>
    /\ parsed = <<>>
    /\ http = NoRequest
    /\ slept = 0
    /\ fnArg = NoBody
    /\ fnRes = NotRun

loopVars ==
    <<timestamp, last_message, response, message, error, validated, sent,
      prev, delivered, cycle, polls, lmStart, reported, calls, parsed, http,
      slept>>

fnVars == <<fnArg, fnRes>>

\* ----------------------------------------------------------------- startup

\* Lines 13-52: os.environ.pop('PRACTICUM_TOKEN') raises KeyError when the
\* name is not set; load_dotenv() then fills the names os.environ lacks from
\* the .env file; the three globals are read with os.getenv.
Import ==
    /\ pc = "import"
    /\ \E dotenv \in EnvConfigs :
        /\ supplied' = {n \in EnvNames :
                            load_dotenv(environ, dotenv)[n] \notin {Missing, ""}}
        /\ IF environ["PRACTICUM_TOKEN"] = Missing
           THEN /\ pc' = "exited"
                /\ exit' = [by |-> "import",
                            error |-> Raise("KeyError", <<"PRACTICUM_TOKEN">>)]
                /\ UNCHANGED <<environ, tokens>>
           ELSE LET popped == [environ EXCEPT !["PRACTICUM_TOKEN"] = Missing]
                    loaded == load_dotenv(popped, dotenv)
                IN  /\ environ' = loaded
                    /\ tokens' = [n \in EnvNames |-> getenv(loaded, n)]
                    /\ pc' = "main"
                    /\ UNCHANGED exit
    /\ UNCHANGED <<tokenChecks, loopVars, fnVars>>

\* Line 214 with lines 67-84: main() calls check_tokens; the ValueError it
\* raises is caught by nobody and ends the process.
CheckTokens ==
    /\ pc = "main"
    /\ tokenChecks' = tokenChecks + 1
    /\ LET missing == missing_tokens(tokens)
       IN  IF missing # <<>>
           THEN /\ pc' = "exited"
                /\ exit' = [by |-> "check_tokens",
                            error |-> Raise("ValueError",
                                            <<TOKEN_ABSENCE_MESSAGE>> \o missing)]
           ELSE /\ pc' = "startup"
                /\ UNCHANGED exit
    /\ UNCHANGED <<environ, tokens, supplied, loopVars, fnVars>>

\* Lines 215-217.  Constructing the TeleBot makes no request and is taken
\* to return.
Startup ==
    /\ pc = "startup"
    /\ \E now \in StartTimes : timestamp' = Some(now)
    /\ last_message' = NO_NEW_HOMEWORK_MESSAGE
    /\ lmStart' = NO_NEW_HOMEWORK_MESSAGE
    /\ pc' = "get_api_answer"
    /\ UNCHANGED <<environ, tokens, exit, supplied, tokenChecks, response,
                   message, error, validated, sent, prev, delivered, cycle,
                   polls, reported, calls, parsed, http, slept, fnVars>>

\* -------------------------------------------------------------- the cycle

\* The history a send_message call leaves: the call, the attempts it made
\* on the bot and, when hist, the texts that got through.
Log(text, r, hist) ==
    /\ calls' = Append(calls, [text |-> text, result |-> r.result,
                               raised |-> r.raised])
    /\ sent' = sent \o r.attempts
    /\ delivered' = IF hist
                    THEN delivered \o [i \in 1..Len(SelectSeq(r.attempts, Ok)) |->
                                          SelectSeq(r.attempts, Ok)[i].text]
                    ELSE delivered

\* Line 220.  With hist the calls are counted and the run stops after
\* MaxCycles cycles; without, the loop runs for ever and counts nothing.
GetApiAnswerStep(hist) ==
    /\ pc = "get_api_answer"
    /\ hist => cycle < MaxCycles
    /\ polls' = IF hist THEN polls + 1 ELSE polls
    /\ \E outcome \in HttpOutcomes :
        LET r == get_api_answer(timestamp, outcome)
        IN  /\ http' = outcome
            /\ IF r.raised
               THEN /\ error' = r.error
                    /\ pc' = "except"
                    /\ UNCHANGED response
               ELSE /\ response' = r.body
                    /\ pc' = "check_response"
                    /\ UNCHANGED error
    /\ UNCHANGED <<environ, tokens, exit, supplied, tokenChecks, timestamp,
                   last_message, message, validated, sent, prev, delivered,
                   cycle, lmStart, reported, calls, parsed, slept, fnVars>>

GetApiAnswer == GetApiAnswerStep(TRUE)

\* Line 221.
CheckResponse ==
    /\ pc = "check_response"
    /\ LET r == check_response(response)
       IN  IF r.raised
           THEN /\ error' = r.error
                /\ pc' = "except"
                /\ UNCHANGED validated
           ELSE /\ validated' = TRUE
                /\ pc' = "homeworks"
                /\ UNCHANGED error
    /\ UNCHANGED <<environ, tokens, exit, supplied, tokenChecks, timestamp,
                   last_message, response, message, sent, prev, delivered,
                   cycle, polls, lmStart, reported, calls, parsed, http,
                   slept, fnVars>>

\* ParseFirst parsing the last element of the list.
ParseLast ==
    /\ pc = "homeworks"
    /\ LET homeworks == response.homeworks.items
       IN  IF homeworks = <<>>
           THEN /\ pc' = "sleep"
                /\ UNCHANGED <<message, error, reported, parsed>>
           ELSE LET r == parse_status(homeworks[Len(homeworks)])
                IN  /\ parsed' = Append(parsed, homeworks[Len(homeworks)])
                    /\ IF r.raised
                       THEN /\ error' = r.error
                            /\ pc' = "except"
                            /\ UNCHANGED <<message, reported>>
                       ELSE /\ message' = r.value
                            /\ reported' = reported \cup {r.value}
                            /\ pc' = "diff"
                            /\ UNCHANGED error
    /\ UNCHANGED <<environ, tokens, exit, supplied, tokenChecks, timestamp,
                   last_message, response, validated, sent, prev, delivered,
                   cycle, polls, lmStart, calls, http, slept, fnVars>>

\* ParseFirst without the test of line 223: homeworks[0] of an empty list
\* raises IndexError.
ParseFirstNoEmptyTest ==
    /\ pc = "homeworks"
    /\ LET homeworks == response.homeworks.items
       IN  IF homeworks = <<>>
           THEN /\ error' = Raise("IndexError", <<"list index out of range">>)
                /\ pc' = "except"
                /\ UNCHANGED <<message, reported, parsed>>
           ELSE LET r == parse_status(homeworks[1])
                IN  /\ parsed' = Append(parsed, homeworks[1])
                    /\ IF r.raised
                       THEN /\ error' = r.error
                            /\ pc' = "except"
                            /\ UNCHANGED <<message, reported>>
                       ELSE /\ message' = r.value
                            /\ reported' = reported \cup {r.value}
                            /\ pc' = "diff"
                            /\ UNCHANGED error
    /\ UNCHANGED <<environ, tokens, exit, supplied, tokenChecks, timestamp,
                   last_message, response, validated, sent, prev, delivered,
                   cycle, polls, lmStart, calls, http, slept, fnVars>>

\* ParseFirst going back to line 220 from the empty list, past the sleep.
ParseFirstSkipsSleep ==
    /\ pc = "homeworks"
    /\ LET homeworks == response.homeworks.items
       IN  IF homeworks = <<>>
           THEN /\ pc' = "get_api_answer"
                /\ UNCHANGED <<message, error, reported, parsed>>
           ELSE LET r == parse_status(homeworks[1])
                IN  /\ parsed' = Append(parsed, homeworks[1])
                    /\ IF r.raised
                       THEN /\ error' = r.error
                            /\ pc' = "except"
                            /\ UNCHANGED <<message, reported>>
                       ELSE /\ message' = r.value
                            /\ reported' = reported \cup {r.value}
                            /\ pc' = "diff"
                            /\ UNCHANGED error
    /\ UNCHANGED <<environ, tokens, exit, supplied, tokenChecks, timestamp,
                   last_message, response, validated, sent, prev, delivered,
                   cycle, polls, lmStart, calls, http, slept, fnVars>>

\* Lines 222-226: an empty list only logs; else the first element is parsed.
\* With hist the text returned joins the texts returned so far.
ParseFirstStep(hist) ==
    /\ pc = "homeworks"
    /\ LET homeworks == response.homeworks.items
       IN  IF homeworks = <<>>
           THEN /\ pc' = "sleep"
                /\ UNCHANGED <<message, error, reported, parsed>>
           ELSE LET r == parse_status(homeworks[1])
                IN  /\ parsed' = Append(parsed, homeworks[1])
                    /\ IF r.raised
                       THEN /\ error' = r.error
                            /\ pc' = "except"
                            /\ UNCHANGED <<message, reported>>
                       ELSE /\ message' = r.value
                            /\ reported' = IF hist THEN reported \cup {r.value}
                                             ELSE reported
                            /\ pc' = "diff"
                            /\ UNCHANGED error
    /\ UNCHANGED <<environ, tokens, exit, supplied, tokenChecks, timestamp,
                   last_message, response, validated, sent, prev, delivered,
                   cycle, polls, lmStart, calls, http, slept, fnVars>>

ParseFirst == ParseFirstStep(TRUE)

\* Diff without the comparison of line 227.
DiffAlwaysSend ==
    /\ pc = "diff"
    /\ \E botRaises \in BOOLEAN :
         LET r == send_message(message, botRaises)
         IN  /\ Log(message, r, TRUE)
             /\ IF r.result
                THEN /\ last_message' = message
                     /\ timestamp' = PyOr(timestamp, response.current_date)
                ELSE UNCHANGED <<last_message, timestamp>>
    /\ pc' = "sleep"
    /\ UNCHANGED <<environ, tokens, exit, supplied, tokenChecks, response,
                   message, error, validated, prev, cycle, polls, lmStart,
                   reported, parsed, http, slept, fnVars>>

\* Diff recording the message whatever send_message returned.
DiffIgnoreResult ==
    /\ pc = "diff"
    /\ IF last_message # message
       THEN \E botRaises \in BOOLEAN :
              LET r == send_message(message, botRaises)
              IN  /\ Log(message, r, TRUE)
                  /\ last_message' = message
                  /\ timestamp' = PyOr(timestamp, response.current_date)
       ELSE UNCHANGED <<calls, sent, last_message, timestamp, delivered>>
    /\ pc' = "sleep"
    /\ UNCHANGED <<environ, tokens, exit, supplied, tokenChecks, response,
                   message, error, validated, prev, cycle, polls, lmStart,
                   reported, parsed, http, slept, fnVars>>

\* Diff never recording the delivered message.
DiffNeverRecords ==
    /\ pc = "diff"
    /\ IF last_message # message
       THEN \E botRaises \in BOOLEAN :
              LET r == send_message(message, botRaises)
              IN  /\ Log(message, r, TRUE)
                  /\ UNCHANGED <<last_message, timestamp>>
       ELSE UNCHANGED <<calls, sent, last_message, timestamp, delivered>>
    /\ pc' = "sleep"
    /\ UNCHANGED <<environ, tokens, exit, supplied, tokenChecks, response,
                   message, error, validated, prev, cycle, polls, lmStart,
                   reported, parsed, http, slept, fnVars>>

\* DiffStep advancing the diff state although the delivery failed.
DiffStepDropsChange(hist) ==
    /\ pc = "diff"
    /\ IF last_message # message
       THEN \E botRaises \in BOOLEAN :
              LET r == send_message(message, botRaises)
              IN  /\ Log(message, r, hist)
                  /\ last_message' = message
                  /\ timestamp' = PyOr(timestamp, response.current_date)
       ELSE UNCHANGED <<calls, sent, last_message, timestamp, delivered>>
    /\ pc' = "sleep"
    /\ UNCHANGED <<environ, tokens, exit, supplied, tokenChecks, response,
                   message, error, validated, prev, cycle, polls, lmStart,
                   reported, parsed, http, slept, fnVars>>

\* Lines 227-230.  An exception leaving send_message would be caught at
\* line 231 as any other raised inside the try block.
DiffStep(hist) ==
    /\ pc = "diff"
    /\ IF last_message # message
       THEN \E botRaises \in BOOLEAN :
              LET r == send_message(message, botRaises)
              IN  /\ Log(message, r, hist)
                  /\ IF r.raised
                     THEN /\ error' = r.error
                          /\ pc' = "except"
                          /\ UNCHANGED <<last_message, timestamp>>
                     ELSE /\ pc' = "sleep"
                          /\ UNCHANGED error
                          /\ IF r.result
                             THEN /\ last_message' = message
                                  /\ timestamp' = PyOr(timestamp,
                                                       response.current_date)
                             ELSE UNCHANGED <<last_message, timestamp>>
       ELSE /\ pc' = "sleep"
            /\ UNCHANGED <<calls, sent, last_message, timestamp, delivered,
                           error>>
    /\ UNCHANGED <<environ, tokens, exit, supplied, tokenChecks, response,
                   message, validated, prev, cycle, polls, lmStart,
                   reported, parsed, http, slept, fnVars>>

Diff == DiffStep(TRUE)

\* Except without the comparison of line 234.
ExceptAlwaysSend ==
    /\ pc = "except"
    /\ LET text == <<PROGRAM_FAIL_MESSAGE>> \o ErrorStr(error)
       IN  /\ message' = text
           /\ \E botRaises \in BOOLEAN :
                LET r == send_message(text, botRaises)
                IN  /\ Log(text, r, TRUE)
                    /\ IF r.result
                       THEN last_message' = text
                       ELSE UNCHANGED last_message
    /\ pc' = "sleep"
    /\ UNCHANGED <<environ, tokens, exit, supplied, tokenChecks, timestamp,
                   response, error, validated, prev, cycle, polls, lmStart,
                   reported, parsed, http, slept, fnVars>>

\* Except recording the diagnostic whatever send_message returned.
ExceptIgnoreResult ==
    /\ pc = "except"
    /\ LET text == <<PROGRAM_FAIL_MESSAGE>> \o ErrorStr(error)
       IN  /\ message' = text
           /\ IF last_message # text
              THEN \E botRaises \in BOOLEAN :
                     LET r == send_message(text, botRaises)
                     IN  /\ Log(text, r, TRUE)
                         /\ last_message' = text
              ELSE UNCHANGED <<calls, sent, last_message, delivered>>
    /\ pc' = "sleep"
    /\ UNCHANGED <<environ, tokens, exit, supplied, tokenChecks, timestamp,
                   response, error, validated, prev, cycle, polls, lmStart,
                   reported, parsed, http, slept, fnVars>>

\* Lines 231-236.  An exception leaving send_message here is raised inside
\* the handler, is caught by nobody and ends the process.
ExceptStep(hist) ==
    /\ pc = "except"
    /\ LET text == <<PROGRAM_FAIL_MESSAGE>> \o ErrorStr(error)
       IN  /\ message' = text
           /\ IF last_message # text
              THEN \E botRaises \in BOOLEAN :
                     LET r == send_message(text, botRaises)
                     IN  /\ Log(text, r, hist)
                         /\ IF r.raised
                            THEN /\ pc' = "exited"
                                 /\ exit' = [by |-> "main", error |-> r.error]
                                 /\ UNCHANGED last_message
                            ELSE /\ pc' = "sleep"
                                 /\ UNCHANGED exit
                                 /\ IF r.result
                                    THEN last_message' = text
                                    ELSE UNCHANGED last_message
              ELSE /\ pc' = "sleep"
                   /\ UNCHANGED <<calls, sent, last_message, delivered, exit>>
    /\ UNCHANGED <<environ, tokens, supplied, tokenChecks, timestamp,
                   response, error, validated, prev, cycle, polls, lmStart,
                   reported, parsed, http, slept, fnVars>>

Except == ExceptStep(TRUE)

\* Line 237, and the jump back to line 218.  response, message and error
\* are written before they are next read, so the values they carry into the
\* next cycle are dropped here.
SleepStep(hist) ==
    /\ pc = "sleep"
    /\ pc' = "get_api_answer"
    /\ cycle' = IF hist THEN cycle + 1 ELSE cycle
    /\ slept' = IF hist THEN slept + RETRY_PERIOD ELSE slept
    /\ prev' = [message |-> message, sent |-> sent]
    /\ message' = NoText
    /\ sent' = <<>>
    /\ calls' = <<>>
    /\ parsed' = <<>>
    /\ http' = NoRequest
    /\ validated' = FALSE
    /\ response' = NoBody
    /\ error' = NoError
    /\ lmStart' = last_message
    /\ UNCHANGED <<environ, tokens, exit, supplied, tokenChecks, timestamp,
                   last_message, delivered, polls, reported, fnVars>>

Sleep == SleepStep(TRUE)

Next ==
    \/ Import
    \/ CheckTokens
    \/ Startup
    \/ GetApiAnswer
    \/ CheckResponse
    \/ ParseFirst
    \/ Diff
    \/ Except
    \/ Sleep

Spec == Init /\ [][Next]_vars

\* ------------------------------------------------------- the endless loop
\* The same program with the loop never stopped: the counters and the logs
\* of deliveries and of texts, which grow with the cycles, are left alone.

LiveGetApiAnswer == GetApiAnswerStep(FALSE)

LiveParseFirst == ParseFirstStep(FALSE)

LiveDiff == DiffStep(FALSE)

LiveExcept == ExceptStep(FALSE)

LiveSleep == SleepStep(FALSE)

NextLive ==
    \/ Import
    \/ CheckTokens
    \/ Startup
    \/ LiveGetApiAnswer
    \/ CheckResponse
    \/ LiveParseFirst
    \/ LiveDiff
    \/ LiveExcept
    \/ LiveSleep

\* `while True` of line 218 with the blocking calls returning: the process
\* takes its next step as long as it has one.
SpecLive == Init /\ [][NextLive]_vars /\ WF_vars(NextLive)


\* ------------------------------------------- the validator and the parser
\* check_response and parse_status applied to every body and homework of a
\* wider input set than the loop is fed.

FnNames == {Missing, "proj1", "proj2"}

FnStatuses ==
    {MissingValue, JStr("approved"), JStr("reviewing"), JStr("rejected"),
     JStr("graded"), JStr(""), JNone, JList}

FnHomeworks ==
    {Homework("dict", n, s) : n \in FnNames, s \in FnStatuses}
    \cup {Homework("int", Missing, MissingValue)}

FnHomeworksValues ==
    {HomeworksValue("list", <<>>), NoHomeworks, HomeworksValue("dict", <<>>),
     HomeworksValue("int", <<>>), HomeworksValue("str", <<>>),
     HomeworksValue("NoneType", <<>>)}
    \cup {HomeworksValue("list", <<h>>) : h \in FnHomeworks}

FnBodies ==
    {OkBody(h, d) : h \in FnHomeworksValues, d \in {None, Some(1)}}
    \cup {Body(t, NoHomeworks, None, Missing, Missing) :
            t \in {"list", "str", "int", "NoneType"}}

InitFn ==
    /\ pc = "fn_check_response"
    /\ fnArg \in FnBodies
    /\ fnRes = NotRun
    /\ environ = [n \in EnvNames |-> Missing]
    /\ tokens = [n \in EnvNames |-> NoneStr]
    /\ exit = NoExit
    /\ timestamp = None
    /\ last_message = NoText
    /\ response = NoBody
    /\ message = NoText
    /\ error = NoError
    /\ supplied = {}
    /\ tokenChecks = 0
    /\ polls = 0
    /\ validated = FALSE
    /\ sent = <<>>
    /\ prev = NoCycle
    /\ delivered = <<>>
    /\ cycle = 0
    /\ lmStart = NoText
    /\ reported = {}
    /\ calls = <<>>
    /\ parsed = <<>>
    /\ http = NoRequest
    /\ slept = 0

FnCheckResponse ==
    /\ pc = "fn_check_response"
    /\ fnRes' = [op |-> "check_response", homework |-> NoHomework,
                 out |-> check_response(fnArg)]
    /\ pc' = "fn_parse_status"
    /\ UNCHANGED <<fnArg, environ, tokens, exit, supplied, tokenChecks, loopVars>>

FnParseStatus ==
    /\ pc = "fn_parse_status"
    /\ \E i \in 1..Len(fnArg.homeworks.items) :
        fnRes' = [op |-> "parse_status", homework |-> fnArg.homeworks.items[i],
                  out |-> parse_status(fnArg.homeworks.items[i])]
    /\ pc' = "fn_done"
    /\ UNCHANGED <<fnArg, environ, tokens, exit, supplied, tokenChecks, loopVars>>

NextFn ==
    \/ FnCheckResponse
    \/ FnParseStatus

SpecFn == InitFn /\ [][NextFn]_vars


\* -------------------------------------------------------------- properties

\* The cycle has run to its end: the process stands at the sleep of line 237.
CycleEnd == pc = "sleep"

\* The text is one parse_status returns (not a diagnostic, not the sentinel).
IsStatusText(m) == Len(m) = 4 /\ m = StatusText(m[2], m[4])

\* The first send_message call of a cycle summary returned True.
FirstSendOk(c) == c # <<>> /\ c[1].ok

Count(seq, x) == Len(SelectSeq(seq, LAMBDA y : y = x))

\* C1: a cycle whose parse_status text equals last_message calls
\* send_message not at all; and of two consecutive cycles with the same
\* status text, the first delivering it, exactly one send_message call is
\* made in total.
C1_DiffIdempotent ==
    CycleEnd /\ IsStatusText(message) =>
        /\ (message = lmStart => sent = <<>>)
        /\ (prev.message = message /\ FirstSendOk(prev.sent)
                => Len(prev.sent) + Len(sent) = 1)

C1_Witness ==
    /\ CycleEnd
    /\ IsStatusText(message)
    /\ prev.message = message
    /\ FirstSendOk(prev.sent)
    /\ message = lmStart
    /\ sent = <<>>

\* C2: when send_message returned False in a cycle, last_message at the end
\* of the cycle is what it was at its start; and when the next cycle has the
\* same candidate text, that text is sent again.
C2_RetryUntilDelivered ==
    CycleEnd =>
        /\ (sent # <<>> /\ (\A i \in 1..Len(sent) : ~sent[i].ok)
                => last_message = lmStart)
        /\ (prev.sent # <<>> /\ ~prev.sent[Len(prev.sent)].ok
            /\ message = prev.message
                => sent # <<>> /\ sent[1].text = prev.message)

C2_Witness ==
    /\ CycleEnd
    /\ prev.sent # <<>>
    /\ ~prev.sent[1].ok
    /\ message = prev.message
    /\ sent # <<>>
    /\ sent[1].text = prev.message
    /\ last_message = lmStart

\* C3, as claimed: while parse_status has only ever returned one text, that
\* text is successfully delivered at most once, whatever failing cycles lie
\* in between.
C3_DeliveredAtMostOnce ==
    Cardinality(reported) <= 1 =>
        \A m \in reported : Count(delivered, m) <= 1

IsDiagnostic(m) == m # NoText /\ m[1] = PROGRAM_FAIL_MESSAGE

\* C3, amended: two successive successful deliveries never carry the same
\* text, so between two deliveries of one status text a diagnostic was
\* delivered; with no diagnostic delivered the status text is delivered at
\* most once.
C3_NoRepeatedDelivery ==
    /\ \A i \in 1..(Len(delivered) - 1) : delivered[i] # delivered[i + 1]
    /\ (Cardinality(reported) <= 1
        /\ (\A i \in 1..Len(delivered) : ~IsDiagnostic(delivered[i]))
            => \A m \in reported : Count(delivered, m) <= 1)

C3_Witness ==
    /\ Cardinality(reported) = 1
    /\ Len(delivered) = 3
    /\ IsStatusText(delivered[1])
    /\ IsDiagnostic(delivered[2])
    /\ delivered[3] = delivered[1]


\* C4, as claimed: at the end of a cycle whose response passed
\* check_response and carries current_date = d, the poll cursor is d + 1.
C4_CursorAdvances ==
    CycleEnd /\ validated /\ response.current_date # None
        => timestamp = Some(response.current_date[1] + 1)

\* C5: the poll cursor never decreases, and a step changes it only on the
\* delivery path of a cycle whose response passed check_response and
\* carries current_date; get_api_answer, check_response or parse_status
\* failing leaves it as it was.
C5_CursorMonotone ==
    [][timestamp # None =>
        /\ timestamp' # None
        /\ timestamp'[1] >= timestamp[1]
        /\ (timestamp' # timestamp
                => pc = "diff" /\ validated /\ response.current_date # None)
        /\ (pc = "except" => timestamp' = timestamp)]_vars

\* A delivering cycle whose response carries a current_date below the cursor
\* has ended, and the cursor stands where startup put it.
C5_Witness ==
    /\ CycleEnd
    /\ validated
    /\ FirstSendOk(sent)
    /\ response.current_date # None
    /\ response.current_date[1] < timestamp[1]
    /\ timestamp[1] \in StartTimes

\* C6, as claimed: the process ends on its own only by check_tokens
\* rejecting the credentials, before any cycle.
C6_OnlyCheckTokensExits ==
    pc = "exited" => exit.by = "check_tokens" /\ polls = 0 /\ cycle = 0

\* The part of C6 about the loop: once check_tokens has returned, nothing
\* a cycle raises ends the process, and a cycle at its sleep has made a
\* query and is followed by the next query.
LoopNeverExits ==
    pc = "exited" => exit.by \in {"import", "check_tokens"} /\ polls = 0 /\ cycle = 0

AllSupplied == supplied = EnvNames

Range(seq) == {seq[i] : i \in 1..Len(seq)}

\* C7, as claimed: check_tokens returns exactly when the launch
\* configuration gives all three names a non-empty value; otherwise the
\* process ends in check_tokens' error naming every missing name, with no
\* query and no delivery attempt; check_tokens runs once, before the loop.
C7_CredentialGate ==
    /\ (pc = "exited" =>
            /\ exit.by = "check_tokens"
            /\ ~AllSupplied
            /\ Range(exit.error.msg) \ {TOKEN_ABSENCE_MESSAGE} = EnvNames \ supplied
            /\ polls = 0 /\ sent = <<>> /\ delivered = <<>>)
    /\ (pc \notin {"import", "main", "exited"} => AllSupplied /\ tokenChecks = 1)
    /\ (pc \notin {"import", "main"} /\ AllSupplied => pc # "exited")

\* check_tokens over the module globals: it rejects exactly when one of the
\* three globals is falsy, and names every falsy one.
GateOverGlobals ==
    /\ (exit.by = "check_tokens" =>
            Range(exit.error.msg) \ {TOKEN_ABSENCE_MESSAGE}
                = {n \in EnvNames : Falsy(tokens[n])}
            /\ polls = 0 /\ sent = <<>> /\ delivered = <<>>)
    /\ (pc \notin {"import", "main", "exited"} =>
            tokenChecks = 1 /\ \A n \in EnvNames : ~Falsy(tokens[n]))

LacksHomeworks(r) == r.t = "dict" /\ r.homeworks.t = "missing"

\* C8, as claimed: a cycle whose response is a mapping without the
\* homeworks key fails structurally and calls send_message not at all.
C8_NoSendOnMissingKey ==
    CycleEnd /\ LacksHomeworks(response)
        => error.type = "KeyError" /\ sent = <<>>

\* C8, amended: such a cycle fails with the missing-key KeyError of
\* check_response and attempts no status notification; its one possible
\* send_message call carries the diagnostic, and is made exactly when the
\* diagnostic differs from last_message.
C8_OnlyDiagnosticOnMissingKey ==
    CycleEnd /\ LacksHomeworks(response) =>
        /\ error = Raise("KeyError", <<HOMEWORK_KEY_MISSING_MESSAGE>>)
        /\ ~validated
        /\ message = <<PROGRAM_FAIL_MESSAGE>> \o ErrorStr(error)
        /\ Len(sent) <= 1
        /\ (\A i \in 1..Len(sent) : sent[i].text = message)
        /\ (sent # <<>> <=> lmStart # message)

C8_Witness ==
    /\ CycleEnd
    /\ LacksHomeworks(response)
    /\ error.type = "KeyError"
    /\ Len(sent) = 1
    /\ IsDiagnostic(sent[1].text)

\* C9: check_response classifies every body, its rules in order: a
\* non-mapping raises the not-a-dictionary TypeError; a mapping without
\* homeworks the missing-key KeyError; a mapping whose homeworks is no list
\* the not-a-list TypeError; any other mapping is accepted, an empty list
\* and an absent current_date included.
C9_CheckResponseClassifies ==
    fnRes.op = "check_response" =>
        LET out == fnRes.out
        IN  IF fnArg.t # "dict"
            THEN /\ out.raised
                 /\ out.error.type = "TypeError"
                 /\ out.error.msg[1] = API_ANSWER_NOT_DICTIONARY
            ELSE IF fnArg.homeworks.t = "missing"
            THEN /\ out.raised
                 /\ out.error.type = "KeyError"
                 /\ out.error.msg = <<HOMEWORK_KEY_MISSING_MESSAGE>>
            ELSE IF fnArg.homeworks.t # "list"
            THEN /\ out.raised
                 /\ out.error.type = "TypeError"
                 /\ out.error.msg[1] = HOMEWORKS_NOT_LIST_MESSAGE
            ELSE ~out.raised

C9_Witness ==
    /\ fnRes.op = "check_response"
    /\ fnArg.t = "dict"
    /\ fnArg.homeworks = HomeworksValue("list", <<>>)
    /\ fnArg.current_date = None
    /\ ~fnRes.out.raised

Registered(status) == status.t = "str" /\ status.s \in DOMAIN HOMEWORK_VERDICTS

HasBothFields(h) ==
    h.t = "dict" /\ h.homework_name # Missing /\ h.status # MissingValue

\* C10, as claimed: for a submission with both fields, parse_status returns
\* the status text with the catalog verdict when the status is registered,
\* and otherwise raises the unknown-status ValueError whose text contains
\* the status.
C10_ParseStatus ==
    fnRes.op = "parse_status" /\ HasBothFields(fnRes.homework) =>
        LET h == fnRes.homework
            out == fnRes.out
        IN  IF Registered(h.status)
            THEN /\ ~out.raised
                 /\ out.value = StatusText(h.homework_name,
                                           HOMEWORK_VERDICTS[h.status.s])
            ELSE /\ out.raised
                 /\ out.error.type = "ValueError"
                 /\ out.error.msg[1] = UNKNOWN_STATUS_MESSAGE
                 /\ PyStr(h.status) \in Range(out.error.msg)

\* What holds of parse_status: the same, for every status that is hashable.
ParseStatusOnHashable ==
    fnRes.op = "parse_status" /\ HasBothFields(fnRes.homework)
    /\ Hashable(fnRes.homework.status)
        => LET h == fnRes.homework
               out == fnRes.out
           IN  IF Registered(h.status)
               THEN /\ ~out.raised
                    /\ out.value = StatusText(h.homework_name,
                                              HOMEWORK_VERDICTS[h.status.s])
               ELSE /\ out.raised
                    /\ out.error.type = "ValueError"
                    /\ out.error.msg[1] = UNKNOWN_STATUS_MESSAGE
                    /\ PyStr(h.status) \in Range(out.error.msg)

\* C11: parse_status tests the two keys one after the other, before it looks
\* at the value of the status: a submission lacking only its status fails
\* with the missing-status KeyError, one lacking only its name with the
\* missing-name KeyError, and a submission lacking a key never fails with
\* the unknown-status ValueError, whatever its status is.
C11_PresenceChecks ==
    (fnRes.op = "parse_status" /\ fnRes.homework.t = "dict") =>
        LET h == fnRes.homework
            out == fnRes.out
        IN  /\ (h.homework_name # Missing /\ h.status = MissingValue) =>
                    /\ out.raised
                    /\ out.error = Raise("KeyError",
                                         <<HOMEWORK_STATUS_MISSING_MESSAGE>>)
            /\ (h.homework_name = Missing /\ h.status # MissingValue) =>
                    /\ out.raised
                    /\ out.error = Raise("KeyError",
                                         <<HOMEWORK_NAME_MISSING_MESSAGE>>)
            /\ ~HasBothFields(h) => out.raised /\ out.error.type = "KeyError"

\* A submission with a name and no status has been parsed.
C11_Witness ==
    /\ fnRes.op = "parse_status"
    /\ fnRes.homework.t = "dict"
    /\ fnRes.homework.homework_name # Missing
    /\ fnRes.homework.status = MissingValue
    /\ fnRes.out.error = Raise("KeyError", <<HOMEWORK_STATUS_MISSING_MESSAGE>>)

\* C12: no exception leaves a send_message call; the call makes one
\* bot.send_message call with its text, and returns True when that call
\* returned and False when it raised.
C12_OneAttemptPerCall ==
    /\ Len(sent) = Len(calls)
    /\ \A i \in 1..Len(calls) :
        /\ ~calls[i].raised
        /\ i <= Len(sent) =>
            /\ sent[i].text = calls[i].text
            /\ calls[i].result = sent[i].ok

\* A send_message call whose bot call raised has returned False, and the
\* cycle has gone on to its sleep.
C12_Witness ==
    /\ CycleEnd
    /\ Len(calls) = 1
    /\ ~calls[1].result
    /\ ~calls[1].raised
    /\ sent = <<[text |-> message, ok |-> FALSE]>>

\* C13: a cycle that failed ends with the diagnostic built from the error as
\* its message; send_message was called with it exactly when it differed
\* from last_message, and last_message is the diagnostic when the delivery
\* succeeded and is what it was otherwise.  After a cycle that delivered
\* this diagnostic, a cycle failing with the same error attempts nothing.
C13_FailurePath ==
    (CycleEnd /\ error # NoError) =>
        /\ message = <<PROGRAM_FAIL_MESSAGE>> \o ErrorStr(error)
        /\ (sent # <<>>) <=> (lmStart # message)
        /\ \A i \in 1..Len(sent) : sent[i].text = message
        /\ last_message = IF sent # <<>> /\ sent[1].ok THEN message ELSE lmStart
        /\ (prev.message = message /\ prev.sent # <<>> /\ prev.sent[1].ok) =>
                sent = <<>>

\* Two consecutive cycles failed with the same error; the first delivered
\* the diagnostic and the second attempted nothing.
C13_Witness ==
    /\ CycleEnd
    /\ error # NoError
    /\ prev.message = message
    /\ prev.sent = <<[text |-> message, ok |-> TRUE]>>
    /\ sent = <<>>
    /\ last_message = message

\* C14: from startup on, last_message is NO_NEW_HOMEWORK_MESSAGE as long as
\* nothing has been delivered, and afterwards the text of the latest bot
\* call that went through; a text whose call raised, or that was not sent,
\* never becomes last_message.
C14_LastMessage ==
    pc \in {"get_api_answer", "check_response", "homeworks", "diff", "except",
            "sleep"} =>
        /\ last_message = IF delivered = <<>>
                          THEN NO_NEW_HOMEWORK_MESSAGE
                          ELSE delivered[Len(delivered)]
        /\ (sent # <<>> /\ ~sent[Len(sent)].ok) => last_message = lmStart
        /\ sent = <<>> => last_message = lmStart

\* After an earlier delivery, a cycle has tried another text and failed:
\* last_message is still the text delivered earlier.
C14_Witness ==
    /\ CycleEnd
    /\ delivered # <<>>
    /\ sent # <<>>
    /\ ~sent[1].ok
    /\ sent[1].text # last_message
    /\ last_message = delivered[Len(delivered)]

\* The status text of a submission with a registered status.
TextOf(h) == StatusText(h.homework_name, HOMEWORK_VERDICTS[h.status.s])

\* The loop is running and the answer of this cycle, if it has come, is a
\* valid body whose first submission is h.
ApiReturns(h) ==
    /\ pc \in {"get_api_answer", "check_response", "homeworks", "diff", "sleep"}
    /\ pc # "get_api_answer" =>
        /\ response.t = "dict"
        /\ response.homeworks.t = "list"
        /\ response.homeworks.items # <<>>
        /\ response.homeworks.items[1] = h

\* A cycle has ended after a bot call.
Attempted == CycleEnd /\ sent # <<>>

\* A cycle has ended after a bot call that went through.
Succeeded == CycleEnd /\ FirstSendOk(sent)

\* The bot does not fail for ever: called again and again, it goes through
\* again and again.
FairDelivery == []<>Attempted => []<>Succeeded

\* C15: if from some cycle on every answer is a valid body with the same
\* first submission, of a registered status, and the bot does not fail for
\* ever, then the status text of that submission is delivered at some point
\* and last_message is that text from some point on.
C15_EventuallyDelivered ==
    \A h \in {f \in FirstHomeworks : Registered(f.status)} :
        (<>[]ApiReturns(h) /\ FairDelivery) =>
            /\ <>(CycleEnd /\ sent = <<[text |-> TextOf(h), ok |-> TRUE]>>)
            /\ <>[](last_message = TextOf(h))

\* The same status text was tried and not delivered in one cycle, tried
\* again and delivered in the next.
C15_Witness ==
    /\ CycleEnd
    /\ IsStatusText(message)
    /\ prev.message = message
    /\ prev.sent = <<[text |-> message, ok |-> FALSE]>>
    /\ sent = <<[text |-> message, ok |-> TRUE]>>
    /\ last_message = message

\* C16: every call of get_api_answer but the first follows exactly one
\* sleep since the call before it, whatever the cycle between them did, and
\* every sleep lasts RETRY_PERIOD = 600 seconds: while a cycle runs the
\* calls are one ahead of the sleeps, and between cycles they are level.
\* No cycle ends otherwise: nothing raised in main()'s loop ends the process.
C16_OneSleepPerCycle ==
    /\ polls = IF pc \in {"check_response", "homeworks", "diff", "except",
                          "sleep"}
               THEN cycle + 1 ELSE cycle
    /\ slept = cycle * 600
    /\ pc = "exited" => exit.by # "main"

\* Two cycles have been completed and two sleeps taken; a cycle delivered
\* and the last one failed.
C16_Witness ==
    /\ pc = "get_api_answer"
    /\ cycle = 2
    /\ polls = 2
    /\ slept = 1200
    /\ IsDiagnostic(prev.message)
    /\ delivered # <<>>

\* C17: in a cycle whose validated response has a non-empty homeworks list,
\* parse_status is called with homeworks[0] and nothing else, and what the
\* cycle does is what homeworks[0] and last_message alone give: when
\* parse_status(homeworks[0]) returns, the message is its text, the cycle
\* does not fail and sends exactly when the text differs from last_message;
\* when it raises, the cycle fails with that error.  The later elements
\* play no part.
C17_FirstElementDecides ==
    (CycleEnd /\ validated /\ response.homeworks.items # <<>>) =>
        LET first == response.homeworks.items[1]
            r == parse_status(first)
        IN  /\ parsed = <<first>>
            /\ IF r.raised
               THEN /\ error = r.error
                    /\ message = <<PROGRAM_FAIL_MESSAGE>> \o ErrorStr(r.error)
               ELSE /\ error = NoError
                    /\ message = r.value
            /\ (sent # <<>>) <=> (message # lmStart)
            /\ \A i \in 1..Len(sent) : sent[i].text = message

\* A list whose first submission is well formed and whose second element is
\* not has been handled: the status text was delivered and nothing failed.
C17_Witness ==
    /\ CycleEnd
    /\ validated
    /\ Len(response.homeworks.items) >= 2
    /\ parse_status(response.homeworks.items[2]).raised
    /\ error = NoError
    /\ IsStatusText(message)
    /\ sent = <<[text |-> message, ok |-> TRUE]>>

\* C18: a cycle whose validated response has an empty homeworks list ends
\* without a parse_status call, without a send_message call and without an
\* error, its message never built, and with last_message as it was when the
\* cycle began.
C18_EmptyListIsQuiet ==
    (CycleEnd /\ validated /\ response.homeworks.items = <<>>) =>
        /\ parsed = <<>>
        /\ calls = <<>>
        /\ sent = <<>>
        /\ error = NoError
        /\ message = NoText
        /\ last_message = lmStart

\* After a delivered status text, a cycle with an empty list has ended and
\* last_message is still that text.
C18_Witness ==
    /\ CycleEnd
    /\ validated
    /\ response.homeworks.items = <<>>
    /\ IsStatusText(last_message)
    /\ prev.sent = <<[text |-> last_message, ok |-> TRUE]>>
    /\ sent = <<>>

\* The request of this cycle did not end in a 200 answer: requests.get
\* raised, or the status of the answer is another one.
RequestFailed == http.exc \/ http.status_code # HTTP_OK

\* C19: get_api_answer hands main() a body only from a 200 answer, and that
\* body is the answer's; when the request raised or the status is not 200
\* the cycle is in its failure path with an error, check_response and
\* parse_status are not called on the body, nothing but the diagnostic is
\* sent, and the cycle goes on to its sleep.
C19_Non200IsFailure ==
    pc \in {"check_response", "homeworks", "diff", "except", "sleep"} =>
        /\ response # NoBody =>
            /\ ~http.exc
            /\ http.status_code = HTTP_OK
            /\ response = http.body
        /\ RequestFailed =>
            /\ pc \in {"except", "sleep"}
            /\ error # NoError
            /\ response = NoBody
            /\ ~validated
            /\ parsed = <<>>
            /\ \A i \in 1..Len(sent) : IsDiagnostic(sent[i].text)
            /\ CycleEnd => IsDiagnostic(message)

\* A 500 answer whose body carries a well-formed homeworks list has been
\* handled: the diagnostic was delivered, no status text was.
C19_Witness ==
    /\ CycleEnd
    /\ ~http.exc
    /\ http.status_code = 500
    /\ http.body.homeworks.t = "list"
    /\ http.body.homeworks.items # <<>>
    /\ ~parse_status(http.body.homeworks.items[1]).raised
    /\ IsDiagnostic(message)
    /\ sent = <<[text |-> message, ok |-> TRUE]>>

\* C20: a cycle calls send_message at most once and the bot at most once:
\* the text of the one call is the status text or the diagnostic, never one
\* after the other, and a cycle whose status text was not delivered ends
\* without an error and without a diagnostic.
C20_AtMostOneAttempt ==
    /\ Len(calls) <= 1
    /\ Len(sent) <= 1
    /\ (calls # <<>> /\ IsStatusText(calls[1].text)) =>
            /\ error = NoError
            /\ pc = "sleep"
            /\ message = calls[1].text

\* A status text was sent and not delivered, and the cycle has ended with
\* that one call and no error.
C20_Witness ==
    /\ CycleEnd
    /\ IsStatusText(message)
    /\ calls = <<[text |-> message, result |-> FALSE, raised |-> FALSE]>>
    /\ sent = <<[text |-> message, ok |-> FALSE]>>
    /\ error = NoError

====
